---- MODULE Spec2Model ----
(***************************************************************************)
(* Model of src/stamp.cpp: the in-place streaming stamper.                 *)
(*   - strings are sequences of one-character strings;                     *)
(*   - stoi, getline and parseSpec are operators computed as the C++       *)
(*     library and the source compute them;                                *)
(*   - main / InplaceIncrementalStamp are a state machine, one action per  *)
(*     statement group, with the PDFium calls as nondeterministic inputs.  *)
(***************************************************************************)
EXTENDS Integers, Sequences, FiniteSets, TLC

\* ------------------------------------------------------------------ bounds
\* largest page count of a document in a run
MaxPages == 81
\* largest page count handed to parseSpec in the parser specification
MaxUnits == 3
\* largest number written as a decimal token in the parser inputs
MaxNum == 4
\* number of comma separated tokens of a generated selection spec
MaxTokens == 4
\* length of the input file in bytes
MaxInLen == 2
\* largest number of bytes one incremental save writes
MaxDelta == 2

\* ------------------------------------------------------- program constants
STEP == 40
INT_MAX == 2147483647
INT_MIN == (-INT_MAX) - 1
\* std::vector<char> buf(1<<20)
ChunkSize == 1048576

\* ----------------------------------------------------------------- strings
Digits == <<"0", "1", "2", "3", "4", "5", "6", "7", "8", "9">>

IsDigit(c) == \E i \in 1..10 : Digits[i] = c

DigitVal(c) == (CHOOSE i \in 1..10 : Digits[i] = c) - 1

\* isspace() of the "C" locale (the vertical tab has no TLA+ string escape)
IsSpace(c) == c \in {" ", "\t", "\n", "\r", "\f"}

\* s.substr(from) with 1-based from: the characters from..Len(s)
SubstrFrom(s, from) == SubSeq(s, from, Len(s))

\* tok.find(ch): the 1-based position of the first ch, 0 for npos
Find(s, ch) ==
  IF \E i \in 1..Len(s) : s[i] = ch
  THEN CHOOSE i \in 1..Len(s) : s[i] = ch /\ \A j \in 1..(i-1) : s[j] # ch
  ELSE 0

\* ---------------------------------------------------------------- std::stoi
\* The digit loop of strtol, base 10. neg accumulates downwards so that
\* INT_MIN is reached without leaving the int range.
RECURSIVE StoiDigits(_, _, _, _, _)
StoiDigits(s, i, neg, acc, seen) ==
  IF i > Len(s) \/ ~IsDigit(s[i])
  THEN IF seen THEN [thrown |-> "none", val |-> acc]
       ELSE [thrown |-> "invalid_argument", val |-> 0]
  ELSE LET d == DigitVal(s[i]) IN
       IF neg
       THEN IF acc < (INT_MIN + d + 9) \div 10
            THEN [thrown |-> "out_of_range", val |-> 0]
            ELSE StoiDigits(s, i + 1, neg, acc * 10 - d, TRUE)
       ELSE IF acc > (INT_MAX - d) \div 10
            THEN [thrown |-> "out_of_range", val |-> 0]
            ELSE StoiDigits(s, i + 1, neg, acc * 10 + d, TRUE)

RECURSIVE SkipSpace(_, _)
SkipSpace(s, i) ==
  IF i <= Len(s) /\ IsSpace(s[i]) THEN SkipSpace(s, i + 1) ELSE i

\* std::stoi(str): leading white space, an optional sign, decimal digits;
\* what follows the digits is ignored; no digit: invalid_argument; a value
\* outside int: out_of_range.
stoi(s) ==
  LET i == SkipSpace(s, 1) IN
  IF i <= Len(s) /\ s[i] = "-" THEN StoiDigits(s, i + 1, TRUE, 0, FALSE)
  ELSE IF i <= Len(s) /\ s[i] = "+" THEN StoiDigits(s, i + 1, FALSE, 0, FALSE)
  ELSE StoiDigits(s, i, FALSE, 0, FALSE)

Max(a, b) == IF a > b THEN a ELSE b
Min(a, b) == IF a < b THEN a ELSE b

\* --------------------------------------------------------------- parseSpec
\* SingleToken without the p <= maxPage test
SingleTokenNoUpper(tok, idx, maxPage) ==
  LET r == stoi(tok) IN
  IF r.thrown # "none" THEN [thrown |-> r.thrown, idx |-> idx]
  ELSE IF r.val >= 1
       THEN [thrown |-> "none", idx |-> idx \cup {r.val}]
       ELSE [thrown |-> "none", idx |-> idx]

\* the single-integer branch: idx after the token
SingleToken(tok, idx, maxPage) ==
  LET r == stoi(tok) IN
  IF r.thrown # "none" THEN [thrown |-> r.thrown, idx |-> idx]
  ELSE IF r.val >= 1 /\ r.val <= maxPage
       THEN [thrown |-> "none", idx |-> idx \cup {r.val}]
       ELSE [thrown |-> "none", idx |-> idx]

\* RangeBounds without the swap of a and b
RangeBoundsNoSwap(a, b, maxPage) == [a |-> Max(a, 1), b |-> Min(b, maxPage)]

\* RangeBounds without the std::max(a, 1)
RangeBoundsNoLower(a, b, maxPage) ==
  LET lo == IF a > b THEN b ELSE a
      hi == IF a > b THEN a ELSE b
  IN [a |-> lo, b |-> Min(hi, maxPage)]

\* RangeBounds with each bound clamped into [1, maxPage]
RangeBoundsClampBoth(a, b, maxPage) ==
  LET lo == IF a > b THEN b ELSE a
      hi == IF a > b THEN a ELSE b
  IN [a |-> Max(1, Min(maxPage, lo)), b |-> Max(1, Min(maxPage, hi))]

\* the bounds of the range branch after the swap and the two clamps
RangeBounds(a, b, maxPage) ==
  LET lo == IF a > b THEN b ELSE a
      hi == IF a > b THEN a ELSE b
  IN [a |-> Max(lo, 1), b |-> Min(hi, maxPage)]

\* the range branch: idx after the token
RangeToken(tok, dash, idx, maxPage) ==
  LET ra == stoi(SubSeq(tok, 1, dash - 1)) IN
  IF ra.thrown # "none" THEN [thrown |-> ra.thrown, idx |-> idx]
  ELSE LET rb == stoi(SubstrFrom(tok, dash + 1)) IN
       IF rb.thrown # "none" THEN [thrown |-> rb.thrown, idx |-> idx]
       ELSE LET c == RangeBounds(ra.val, rb.val, maxPage) IN
            [thrown |-> "none", idx |-> idx \cup (c.a .. c.b)]

\* Token with idx local to the loop body: each token starts from no index
TokenResets(tok, idx, maxPage) ==
  LET dash == Find(tok, "-") IN
  IF dash = 0 THEN SingleToken(tok, {}, maxPage)
  ELSE RangeToken(tok, dash, {}, maxPage)

\* the body of the while loop for one token
Token(tok, idx, maxPage) ==
  LET dash == Find(tok, "-") IN
  IF dash = 0 THEN SingleToken(tok, idx, maxPage)
  ELSE RangeToken(tok, dash, idx, maxPage)

\* while (std::getline(ss, tok, ',')): at the end of the stream getline
\* fails; otherwise it extracts up to and including the next ','.
RECURSIVE TokenLoop(_, _, _)
TokenLoop(rest, idx, maxPage) ==
  IF rest = <<>> THEN [thrown |-> "none", idx |-> idx]
  ELSE LET comma == Find(rest, ",")
           tok == IF comma = 0 THEN rest ELSE SubSeq(rest, 1, comma - 1)
           after == IF comma = 0 THEN <<>> ELSE SubstrFrom(rest, comma + 1)
           r == Token(tok, idx, maxPage)
       IN IF r.thrown # "none" THEN r ELSE TokenLoop(after, r.idx, maxPage)

All == <<"a", "l", "l">>

parseSpec(spec, maxPage) ==
  IF spec = All THEN [thrown |-> "none", idx |-> 1..maxPage]
  ELSE TokenLoop(spec, {}, maxPage)

\* ------------------------------------------------------------------ inputs
\* the decimal digits of n >= 0
RECURSIVE Dec(_)
Dec(n) == IF n < 10 THEN <<Digits[n + 1]>> ELSE Dec(n \div 10) \o <<Digits[(n % 10) + 1]>>

\* the tokens joined by commas
RECURSIVE Join(_)
Join(ts) ==
  IF ts = <<>> THEN <<>>
  ELSE IF Len(ts) = 1 THEN ts[1]
  ELSE ts[1] \o <<",">> \o Join(Tail(ts))

RangeStr(a, b) == Dec(a) \o <<"-">> \o Dec(b)

TooBig == <<"2", "1", "4", "7", "4", "8", "3", "6", "4", "8">>

\* selection specs of one token: every number and range up to MaxNum and
\* the ends of the int range
OneTokenSpecs ==
  {Dec(a) : a \in 0..MaxNum}
  \cup {RangeStr(a, b) : a \in 0..MaxNum, b \in 0..MaxNum}
  \cup {Dec(INT_MAX), TooBig, RangeStr(1, INT_MAX), RangeStr(INT_MAX, 1),
        Dec(1) \o <<"-">> \o TooBig, TooBig \o <<"-">> \o Dec(1)}
  \cup {<<"-">> \o Dec(a) : a \in 1..MaxNum}

\* "all", and specs with tokens std::stoi accepts in part or rejects
OddSpecs ==
  {All, <<"a", "l", "l", ",", "1">>, <<"A", "l", "l">>,
   <<"-">> \o TooBig, <<"-">>, Dec(1) \o <<"-">>,
   <<"1", "-", "-", "2">>, <<"1", "-", "2", "-", "3">>,
   <<"x">>, <<"1", "x">>, <<"x", "1">>, <<"1", "-", "x">>,
   <<" ", "1">>, <<"1", " ">>, <<"+", "1">>, <<"0", "0", "2">>,
   <<",">>, <<"1", ",">>, <<",", "1">>, <<"1", ",", ",", "2">>,
   <<"0", ",", ",", "2">>, <<"1", ",", "x">>, <<"x", ",", "1">>,
   <<"0", ",", "2", "-">>, <<"1", ",", "3", "-", "1">>,
   <<"0", ",", "3", "-", "1">>}

\* the tokens of the generated lists
ListTokens ==
  {Dec(1), Dec(2), RangeStr(2, 2), Dec(0), Dec(MaxNum), <<"x">>}

TokenLists ==
  UNION {[1..n -> ListTokens] : n \in 0..MaxTokens}

ParseInputs == OneTokenSpecs \cup OddSpecs \cup {Join(ts) : ts \in TokenLists}

\* the selection specs given to a whole run (av[2])
RunSpecs ==
  {<<>>, <<"3", ",", "5", "-", "7">>, <<"0", "-", "3">>,
   <<"1", ",", "1", ",", "2", ",", "2", "-", "2">>, <<"x">>,
   <<"4", "1">>, <<"1", ",", ",", "2">>, <<"9", "9", "9">>,
   TooBig, <<"4", "0", "-", "4", "1">>, <<"1", "x">>}

\* the pages FPDF_LoadPage may fail to load
FailCandidates == {1, 3, STEP, STEP + 1}

\* ------------------------------------------------------------------- state
VARIABLES
  pc,         \* the position in main / InplaceIncrementalStamp
  ac,         \* argc
  spec,       \* the selection spec
  inLen,      \* the length of the input file
  libInits,   \* calls of FPDF_InitLibraryWithConfig
  libDestroys,\* calls of FPDF_DestroyLibrary
  doc,        \* the document handle: "none", "open", "closed"
  pageCount,  \* FPDF_GetPageCount(doc)
  wanted,     \* the set parseSpec returned
  thrown,     \* the exception in flight or caught by main, "none" otherwise
  fw,         \* the FileWriter's FILE: "unopened", "open", "closed"
  out,        \* the bytes of the file at outPath, <<>> when there is none
  pos,        \* the file position of fw.fp
  srcPos,     \* the bytes of inPath the copy has read
  start,      \* the batch loop's start
  end,        \* the batch loop's end
  p,          \* the page loop's p
  openPages,  \* the page handles loaded and not closed
  acquired,   \* the pages FPDF_LoadPage returned a handle for, in order
  failed,     \* the pages FPDF_LoadPage returned null for
  mutated,    \* the pages FPDFPage_InsertObject was called on, in order
  saves,      \* the calls of FPDF_SaveWithVersion, in order
  exitCode,   \* the exit status of main, -1 while it runs
  wrote       \* the success line has been written to std::cout

vars == <<pc, ac, spec, inLen, libInits, libDestroys, doc, pageCount, wanted,
          thrown, fw, out, pos, srcPos, start, end, p, openPages, acquired,
          failed, mutated, saves, exitCode, wrote>>

\* the bytes of the input file, and of the k-th incremental save
InputBytes(n) == [i \in 1..n |-> <<0, i>>]
DeltaBytes(k, n) == [i \in 1..n |-> <<k, i>>]
\* a file that was at outPath before the run
OldFile == <<<<-1, 1>>>>

argv == <<ac, spec>>
libv == <<libInits, libDestroys, doc>>
selv == <<pageCount, wanted>>
filev == <<fw, out, pos, srcPos>>
loopv == <<start, end, p>>
histv == <<openPages, acquired, failed, mutated, saves>>

\* the state every run starts from, but for pc, ac, spec, pageCount and out
Fresh ==
  /\ inLen = 0
  /\ libInits = 0 /\ libDestroys = 0 /\ doc = "none"
  /\ wanted = {} /\ thrown = "none"
  /\ fw = "unopened" /\ pos = 0 /\ srcPos = 0
  /\ start = 0 /\ end = 0 /\ p = 0
  /\ openPages = {} /\ acquired = <<>> /\ failed = {} /\ mutated = <<>>
  /\ saves = <<>>
  /\ exitCode = -1 /\ wrote = FALSE

\* main is entered with ac arguments; spec = ac >= 3 ? av[2] : "all"
Init ==
  /\ pc = "main"
  /\ ac \in 1..3
  /\ spec \in (IF ac >= 3 THEN RunSpecs ELSE {All})
  /\ pageCount = 0
  /\ out \in {<<>>, OldFile}
  /\ Fresh

\* ------------------------------------------------------------------ output
\* std::fwrite of bytes at file position at: overwrites, extends at the end
fwrite(file, at, bytes) ==
  [i \in 1..Max(Len(file), at + Len(bytes)) |->
     IF i > at /\ i <= at + Len(bytes) THEN bytes[i - at] ELSE file[i]]

\* FileWriterDtor without the std::fclose
FileWriterLeak(f) == f

\* the value of fw after ~FileWriter() has run
FileWriterDtor(f) == IF f = "open" THEN "closed" ELSE f

\* -------------------------------------------------------------------- main
\* MainReturn with the test of the result left out
MainReturnZero(ok) == 0

\* main's return value for the result ok of InplaceIncrementalStamp:
\* if (!InplaceIncrementalStamp(...)) return 1; ... return 0
MainReturn(ok) == IF ok THEN 0 ELSE 1

\* ac < 2: the usage line, return 1
Usage ==
  /\ pc = "main" /\ ac < 2
  /\ pc' = "done" /\ exitCode' = 1
  /\ UNCHANGED <<argv, inLen, libv, selv, filev, loopv, histv, thrown, wrote>>

\* FileReader rdr(in): the open fails and throws, or the length is read
FileReaderOpen ==
  /\ pc = "main" /\ ac >= 2
  /\ \E ok \in BOOLEAN :
       IF ok
       THEN /\ \E n \in 1..MaxInLen : inLen' = n
            /\ pc' = "init"
            /\ UNCHANGED <<thrown, exitCode>>
       ELSE /\ thrown' = "open" /\ exitCode' = 1 /\ pc' = "done"
            /\ UNCHANGED inLen
  /\ UNCHANGED <<argv, libv, selv, filev, loopv, histv, wrote>>

\* 1) FPDF_InitLibraryWithConfig, 2) FPDF_LoadCustomDocument; no document:
\* return false
LoadDocument ==
  /\ pc = "init"
  /\ libInits' = libInits + 1
  /\ \E loaded \in BOOLEAN :
       IF loaded
       THEN /\ doc' = "open" /\ pc' = "parse" /\ UNCHANGED exitCode
       ELSE /\ doc' = "none" /\ pc' = "done" /\ exitCode' = MainReturn(FALSE)
  /\ UNCHANGED <<argv, inLen, libDestroys, selv, filev, loopv, histv, thrown, wrote>>

\* IsEmptySelection with the test left out
NeverEmpty(w) == FALSE

\* wanted.empty()
IsEmptySelection(w) == w = {}

\* pageCount = FPDF_GetPageCount(doc); wanted = parseSpec(spec, pageCount);
\* an exception of std::stoi leaves through main's catch; an empty set:
\* return false
ParseSelection ==
  /\ pc = "parse"
  /\ \E n \in 0..MaxPages :
       LET r == parseSpec(spec, n) IN
       /\ pageCount' = n
       /\ IF r.thrown # "none"
          THEN /\ thrown' = r.thrown /\ wanted' = {}
               /\ pc' = "done" /\ exitCode' = 1
          ELSE /\ wanted' = r.idx /\ UNCHANGED thrown
               /\ IF IsEmptySelection(r.idx)
                  THEN pc' = "done" /\ exitCode' = MainReturn(FALSE)
                  ELSE pc' = "openout" /\ UNCHANGED exitCode
  /\ UNCHANGED <<argv, inLen, libv, filev, loopv, histv, wrote>>

\* FileWriter fw(outPath, "wb+"): fopen truncates or creates the file; a
\* failed fopen throws
OpenOutput ==
  /\ pc = "openout"
  /\ \E ok \in BOOLEAN :
       IF ok
       THEN /\ fw' = "open" /\ out' = <<>> /\ pos' = 0 /\ pc' = "opensrc"
            /\ UNCHANGED <<thrown, exitCode>>
       ELSE /\ thrown' = "open out" /\ exitCode' = 1 /\ pc' = "done"
            /\ UNCHANGED <<fw, out, pos>>
  /\ UNCHANGED <<argv, inLen, libv, selv, srcPos, loopv, histv, wrote>>

\* std::ifstream src(inPath); if (!src) throw: the unwinding runs ~FileWriter
OpenSrc ==
  /\ pc = "opensrc"
  /\ \E ok \in BOOLEAN :
       IF ok
       THEN /\ pc' = "copy" /\ UNCHANGED <<fw, thrown, exitCode>>
       ELSE /\ thrown' = "open input for copy" /\ fw' = FileWriterDtor(fw)
            /\ exitCode' = 1 /\ pc' = "done"
  /\ UNCHANGED <<argv, inLen, libv, selv, out, pos, srcPos, loopv, histv, wrote>>

\* one turn of while (src): read up to ChunkSize bytes, fwrite the bytes
\* read; a short read ends the loop
CopyChunk ==
  /\ pc = "copy"
  /\ LET n == Min(ChunkSize, inLen - srcPos)
         bytes == SubSeq(InputBytes(inLen), srcPos + 1, srcPos + n)
     IN /\ out' = fwrite(out, pos, bytes)
        /\ pos' = pos + n
        /\ srcPos' = srcPos + n
        /\ pc' = IF n = ChunkSize THEN "copy" ELSE "rewind"
  /\ UNCHANGED <<argv, inLen, libv, selv, fw, loopv, histv, thrown, exitCode, wrote>>

\* the file position std::rewind leaves
RewindPos(at) == 0

\* 3b) std::fflush(fw.fp); std::rewind(fw.fp); then start = 1
Rewind ==
  /\ pc = "rewind"
  /\ pos' = RewindPos(pos)
  /\ start' = 1
  /\ pc' = "batch"
  /\ UNCHANGED <<argv, inLen, libv, selv, fw, out, srcPos, end, p, histv,
                 thrown, exitCode, wrote>>

\* ---------------------------------------------------------- the batch loop
\* BatchEnd without the std::min against pageCount
BatchEndNoMin(from, count) == from + STEP - 1

\* int end = std::min(start + STEP - 1, pageCount)
BatchEnd(from, count) == Min(from + STEP - 1, count)

\* NextStart one short: the next batch starts on the last page of this one
NextStartOverlap(from) == from + STEP - 1

\* start += STEP
NextStart(from) == from + STEP

\* for (start ...; start <= pageCount; ...): the head of a batch, or the end
\* of the loop
BatchHead ==
  /\ pc = "batch"
  /\ IF start <= pageCount
     THEN /\ end' = BatchEnd(start, pageCount)
          /\ p' = start
          /\ pc' = "page"
     ELSE /\ pc' = "cleanup"
          /\ UNCHANGED <<end, p>>
  /\ UNCHANGED <<argv, inLen, libv, selv, filev, start, histv, thrown,
                 exitCode, wrote>>

\* Continue written as a break: the page loop ends
ContinueAsBreak(page, last) == last + 1

\* continue: the page loop goes on with ++p
Continue(page, last) == page + 1

\* IsWanted with the test against wanted left out
IsWantedAlways(page, w) == TRUE

\* wanted.find(p) != wanted.end()
IsWanted(page, w) == page \in w

\* if (wanted.find(p) == wanted.end()) continue
PageSkip ==
  /\ pc = "page" /\ p <= end /\ ~IsWanted(p, wanted)
  /\ p' = Continue(p, end)
  /\ UNCHANGED <<pc, argv, inLen, libv, selv, filev, start, end, histv,
                 thrown, exitCode, wrote>>

\* the page handles open after FPDF_LoadPage returned a handle for page
AfterLoadPage(open, page) == open \cup {page}

\* AfterClosePage with the FPDF_ClosePage call left out
AfterClosePageLeak(open, page) == open

\* the page handles open after FPDF_ClosePage(page)
AfterClosePage(open, page) == open \ {page}

\* page = FPDF_LoadPage(doc, p-1); if (!page) continue
LoadPage ==
  /\ pc = "page" /\ p <= end /\ IsWanted(p, wanted)
  /\ \E ok \in BOOLEAN :
       /\ ~ok => p \in FailCandidates
       /\ IF ok
          THEN /\ openPages' = AfterLoadPage(openPages, p)
               /\ acquired' = Append(acquired, p)
               /\ pc' = "stamp"
               /\ UNCHANGED <<failed, p>>
          ELSE /\ failed' = failed \cup {p}
               /\ p' = Continue(p, end)
               /\ UNCHANGED <<openPages, acquired, pc>>
  /\ UNCHANGED <<argv, inLen, libv, selv, filev, start, end, mutated, saves,
                 thrown, exitCode, wrote>>

\* the text object is created, placed and inserted, the content generated,
\* the page closed
Stamp ==
  /\ pc = "stamp"
  /\ mutated' = Append(mutated, p)
  /\ openPages' = AfterClosePage(openPages, p)
  /\ p' = p + 1
  /\ pc' = "page"
  /\ UNCHANGED <<argv, inLen, libv, selv, filev, start, end, acquired, failed,
                 saves, thrown, exitCode, wrote>>

\* AfterSaveFailure without the return: the save is attempted again
AfterSaveRetry == "page"

\* the position after the return false of a failed save
AfterSaveFailure == "done"

\* FPDF_SaveWithVersion(doc, &fw, FPDF_INCREMENTAL, 17) after the page loop:
\* the library hands n bytes to FileWriter::W and reports ok; not ok:
\* return false, which runs ~FileWriter
Save ==
  /\ pc = "page" /\ p > end
  /\ \E ok \in BOOLEAN, n \in 0..MaxDelta :
       /\ ok => n >= 1
       /\ out' = fwrite(out, pos, DeltaBytes(Len(saves) + 1, n))
       /\ pos' = pos + n
       /\ saves' = Append(saves, [start |-> start, end |-> end, ok |-> ok,
                                  at |-> pos, bytes |-> n,
                                  stamped |-> Len(mutated),
                                  tried |-> Len(acquired) + Cardinality(failed)])
       /\ IF ok
          THEN /\ start' = NextStart(start)
               /\ pc' = "batch"
               /\ UNCHANGED <<fw, exitCode>>
          ELSE /\ fw' = FileWriterDtor(fw)
               /\ exitCode' = MainReturn(FALSE)
               /\ pc' = AfterSaveFailure
               /\ UNCHANGED start
  /\ UNCHANGED <<argv, inLen, libv, selv, srcPos, end, p, openPages, acquired,
                 failed, mutated, thrown, wrote>>

\* 5) FPDF_CloseDocument, FPDF_DestroyLibrary, return true (~FileWriter);
\* main writes the success line and returns 0
Cleanup ==
  /\ pc = "cleanup"
  /\ doc' = "closed"
  /\ libDestroys' = libDestroys + 1
  /\ fw' = FileWriterDtor(fw)
  /\ wrote' = TRUE
  /\ exitCode' = MainReturn(TRUE)
  /\ pc' = "done"
  /\ UNCHANGED <<argv, inLen, libInits, selv, out, pos, srcPos, loopv, histv,
                 thrown>>

Next ==
  \/ Usage
  \/ FileReaderOpen
  \/ LoadDocument
  \/ ParseSelection
  \/ OpenOutput
  \/ OpenSrc
  \/ CopyChunk
  \/ Rewind
  \/ BatchHead
  \/ PageSkip
  \/ LoadPage
  \/ Stamp
  \/ Save
  \/ Cleanup

Spec == Init /\ [][Next]_vars

\* ------------------------------------------------- parseSpec on its own
\* parseSpec is called with a spec of ParseInputs and a page count
InitParse ==
  /\ pc = "parse"
  /\ ac = 3
  /\ spec \in ParseInputs
  /\ pageCount \in 0..MaxUnits
  /\ out = <<>>
  /\ Fresh

\* wanted = parseSpec(spec, pageCount), or the exception it throws
CallParseSpec ==
  /\ pc = "parse"
  /\ LET r == parseSpec(spec, pageCount) IN
       /\ thrown' = r.thrown
       /\ wanted' = IF r.thrown = "none" THEN r.idx ELSE {}
  /\ pc' = "parsed"
  /\ UNCHANGED <<argv, inLen, libv, pageCount, filev, loopv, histv, exitCode,
                 wrote>>

NextParse == CallParseSpec

SpecParse == InitParse /\ [][NextParse]_vars

\* ================================================================== claims
Range(f) == {f[i] : i \in DOMAIN f}

AllSavesOk == \A i \in 1..Len(saves) : saves[i].ok

\* the copy of the input is complete and the batch loop runs or has ended
InBatches == pc \in {"batch", "page", "stamp", "cleanup"}

Succeeded == pc = "done" /\ exitCode = 0

\* delta 1, delta 2, ..., delta k, one after the other
RECURSIVE Deltas(_)
Deltas(k) ==
  IF k = 0 THEN <<>> ELSE Deltas(k - 1) \o DeltaBytes(k, saves[k].bytes)

\* C1 (as claimed): after the verbatim copy of the L input bytes the write
\* cursor is at L and never below it, every write of an incremental save
\* starts at an offset >= L, and at the end of a successful run the first L
\* bytes of the output are the input's bytes.
C1_AppendOnly ==
  /\ InBatches => pos >= inLen
  /\ \A i \in 1..Len(saves) : saves[i].at >= inLen
  /\ Succeeded =>
       /\ Len(out) >= inLen
       /\ SubSeq(out, 1, inLen) = InputBytes(inLen)

\* C2 (as claimed): once k incremental saves have returned success the
\* output file is the input's bytes followed by delta 1, ..., delta k and
\* nothing else.
C2_BatchBoundary ==
  (fw # "unopened" /\ saves # <<>> /\ AllSavesOk)
    => out = InputBytes(inLen) \o Deltas(Len(saves))

\* C3: the saves performed so far close the batches [1,40], [41,80], ... of
\* [1, pageCount] in order, each ending at the smaller of 40 i and pageCount,
\* and a run that succeeds has performed exactly ceil(pageCount / 40) saves.
C3_BatchPartition ==
  /\ AllSavesOk =>
       \A i \in 1..Len(saves) :
         /\ saves[i].start = 40 * (i - 1) + 1
         /\ saves[i].end = Min(40 * i, pageCount)
         /\ saves[i].end - saves[i].start + 1 \in 1..40
  /\ Succeeded =>
       /\ Len(saves) = (pageCount + 39) \div 40
       /\ saves[Len(saves)].end = pageCount

\* C3 witness: a run of three batches, the last one short, has succeeded
C3_Witness ==
  /\ Succeeded /\ pageCount > 80 /\ Len(saves) = 3
  /\ saves[3].start = 81 /\ saves[3].end = pageCount

\* C4: at most one page handle is open, and none is open where the next page
\* is acquired or the batch's incremental save is invoked.
C4_OneUnitOpen ==
  /\ Cardinality(openPages) <= 1
  /\ pc # "stamp" => openPages = {}
  /\ pc = "stamp" => openPages = {p}

\* C4 witness: a page is open after an earlier one was acquired and stamped
C4_Witness ==
  /\ pc = "stamp" /\ openPages = {p}
  /\ Len(acquired) >= 2 /\ Len(mutated) = Len(acquired) - 1

\* C5: a page whose acquisition failed is never stamped, and a run in which
\* an acquisition failed and every save succeeded ends in success, with every
\* other selected page stamped and as many saves as without the failure.
C5_UnitFaultTolerance ==
  /\ Range(mutated) \cap failed = {}
  /\ (pc = "done" /\ failed # {} /\ AllSavesOk) =>
       /\ exitCode = 0
       /\ Range(mutated) = wanted \ failed
       /\ Len(saves) = (pageCount + 39) \div 40

\* C5 witness: a successful run in which page 3 failed to load and later
\* pages of the same and of a later batch were stamped
C5_Witness ==
  /\ Succeeded /\ 3 \in failed
  /\ 4 \in Range(mutated) /\ 42 \in Range(mutated)

\* ------------------------------------------------------ claims on parseSpec
\* the numbers the decimal tokens of the inputs are written from
Vals == (0..MaxNum) \cup {INT_MAX}

Parsed == pc = "parsed"

\* the comma separated tokens of s
RECURSIVE Split(_)
Split(s) ==
  LET c == Find(s, ",") IN
  IF c = 0 THEN <<s>>
  ELSE <<SubSeq(s, 1, c - 1)>> \o Split(SubstrFrom(s, c + 1))

\* ts without its i-th token
Remove(ts, i) == SubSeq(ts, 1, i - 1) \o SubSeq(ts, i + 1, Len(ts))

\* ts with its i-th and j-th tokens exchanged
Swap(ts, i, j) ==
  [k \in 1..Len(ts) |-> IF k = i THEN ts[j] ELSE IF k = j THEN ts[i] ELSE ts[k]]

\* what CallParseSpec leaves for the result r of parseSpec
SameResult(r) == thrown = r.thrown /\ (r.thrown = "none" => wanted = r.idx)

\* C6 (as claimed): for the empty spec on a document that loads the run ends
\* with exit status 1 and no incremental save, and the output file then
\* holds exactly the verbatim copy of the input.
C6_Original ==
  (pc = "done" /\ spec = <<>> /\ ac >= 3 /\ doc # "none") =>
    /\ exitCode = 1
    /\ saves = <<>>
    /\ out = InputBytes(inLen)

\* C6 (amended): for the empty spec on a document that loads the run ends
\* with exit status 1, no success line and no incremental save; the output
\* file is never opened, so no copy of the input is written and what was at
\* outPath before (a file or nothing) is what is there when the run ends.
C6_EmptySelection ==
  /\ []((pc = "done" /\ spec = <<>> /\ ac >= 3 /\ doc # "none") =>
          /\ exitCode = 1 /\ ~wrote
          /\ saves = <<>> /\ mutated = <<>>
          /\ fw = "unopened"
          /\ out # InputBytes(inLen))
  /\ [][fw' = "unopened" => out' = out]_vars

\* C6 witness: the run on the empty spec has ended and the file that was at
\* outPath is still there
C6_Witness ==
  /\ pc = "done" /\ spec = <<>> /\ ac >= 3 /\ doc # "none"
  /\ exitCode = 1 /\ out = OldFile

\* C7 (as claimed): for a spec that is one range a-b of non-negative decimal
\* integers parseSpec returns {max(1,min(a,b)) .. min(N,max(a,b))}.
C7_Original ==
  (Parsed /\ Find(spec, "-") > 0 /\ Find(spec, ",") = 0) =>
    \A a \in {Dec(v) : v \in Vals} \cup {TooBig},
       b \in {Dec(v) : v \in Vals} \cup {TooBig} :
      spec = a \o <<"-">> \o b =>
        /\ thrown = "none"
        /\ \A x \in Vals, y \in Vals :
             (a = Dec(x) /\ b = Dec(y)) =>
               wanted = Max(1, Min(x, y)) .. Min(pageCount, Max(x, y))

\* C7 (amended): for a spec that is one range a-b of non-negative decimal
\* integers not above INT_MAX parseSpec returns
\* {max(1,min(a,b)) .. min(N,max(a,b))}; a bound above INT_MAX makes it throw
\* out_of_range.
C7_RangeSelection ==
  (Parsed /\ Find(spec, "-") > 0 /\ Find(spec, ",") = 0) =>
    /\ \A x \in Vals, y \in Vals :
         spec = RangeStr(x, y) =>
           /\ thrown = "none"
           /\ wanted = Max(1, Min(x, y)) .. Min(pageCount, Max(x, y))
    /\ spec \in {Dec(1) \o <<"-">> \o TooBig, TooBig \o <<"-">> \o Dec(1)}
         => thrown = "out_of_range"

\* C7 witness: "0-3" on three units has given {1,2,3}
C7_Witness ==
  Parsed /\ spec = RangeStr(0, 3) /\ pageCount = 3 /\ wanted = {1, 2, 3}

\* max(1, min(N, x))
Clamp(x) == Max(1, Min(pageCount, x))

\* C8 (as claimed): a range token low-high contributes
\* {clamp(min(low,high)) .. clamp(max(low,high))}, both bounds clamped into
\* [1, N], and never raises an error.
C8_Original ==
  (Parsed /\ pageCount >= 1 /\ Find(spec, "-") > 0) =>
    \A x \in Vals, y \in Vals :
      spec = RangeStr(x, y) =>
        /\ thrown = "none"
        /\ wanted = Clamp(Min(x, y)) .. Clamp(Max(x, y))

\* C8 (amended): a range token low-high with bounds not above INT_MAX
\* raises no error and contributes the members of [1, N] that lie between
\* min(low,high) and max(low,high): the lower bound is raised to 1, the upper
\* bound lowered to N, and a range that lies entirely above N or entirely
\* below 1 contributes nothing. The same holds of a range token that follows
\* another token.
C8_RangeClamping ==
  (Parsed /\ Find(spec, "-") > 0 /\ Len(Split(spec)) <= 2) =>
    \A x \in Vals, y \in Vals :
      LET lo == Min(x, y)
          hi == Max(x, y)
          members == {u \in 1..pageCount : lo <= u /\ u <= hi}
      IN /\ spec = RangeStr(x, y) =>
              /\ thrown = "none"
              /\ wanted = members
              /\ (lo > pageCount \/ hi < 1) => wanted = {}
              /\ wanted # {} =>
                   /\ \A u \in wanted : u >= Max(lo, 1) /\ u <= Min(hi, pageCount)
                   /\ Max(lo, 1) \in wanted /\ Min(hi, pageCount) \in wanted
         /\ \A t \in {Dec(1), Dec(0)} :
              spec = Join(<<t, RangeStr(x, y)>>) =>
                /\ thrown = "none"
                /\ wanted = members \cup parseSpec(t, pageCount).idx

\* C8 witness: a range entirely above the page count has given nothing, with
\* pages in the document
C8_Witness ==
  /\ Parsed /\ pageCount >= 1 /\ thrown = "none" /\ wanted = {}
  /\ \E x \in Vals, y \in Vals :
       spec = RangeStr(x, y) /\ Min(x, y) > pageCount

\* C9 (as claimed): a token that is a single integer outside [1, N] (zero,
\* negative or greater than N) adds nothing and does not make parseSpec fail.
C9_Original ==
  Parsed =>
    /\ \A v \in Vals :
         (spec = Dec(v) /\ (v < 1 \/ v > pageCount)) =>
           thrown = "none" /\ wanted = {}
    /\ \A v \in 1..MaxNum :
         spec = <<"-">> \o Dec(v) => thrown = "none" /\ wanted = {}
    /\ spec = TooBig => thrown = "none" /\ wanted = {}

\* v is written as a single integer token outside [1, pageCount]
DroppedToken(tok) ==
  \E v \in Vals : tok = Dec(v) /\ (v < 1 \/ v > pageCount)

\* C9 (amended): a token that is a single non-negative decimal integer not
\* above INT_MAX, and is 0 or greater than N, adds nothing and does not make
\* parseSpec fail, and the other tokens of the spec are processed as they
\* are without it (the spec "all" is no list of tokens). A negative integer is read as a range without lower bound
\* and throws invalid_argument; an integer above INT_MAX throws out_of_range.
C9_OutOfRangeDropped ==
  Parsed =>
    LET ts == Split(spec) IN
    /\ DroppedToken(spec) => thrown = "none" /\ wanted = {}
    /\ \A i \in 1..Len(ts) :
         (/\ Len(ts) > 1
          /\ DroppedToken(ts[i])
          /\ Join(Remove(ts, i)) # All
          /\ i = Len(ts) => ts[i - 1] # <<>>)
           => SameResult(parseSpec(Join(Remove(ts, i)), pageCount))
    /\ \A v \in 1..MaxNum :
         spec = <<"-">> \o Dec(v) => thrown = "invalid_argument"
    /\ spec = TooBig => thrown = "out_of_range"

\* C9 witness: a list with an out-of-range integer in front of a valid token
\* has given the valid token's page
C9_Witness ==
  /\ Parsed /\ pageCount >= 2
  /\ spec = Join(<<Dec(MaxNum), Dec(0), Dec(2)>>) /\ MaxNum > pageCount
  /\ thrown = "none" /\ wanted = {2}

\* the tokens the grammar accepts: an integer or a range of the inputs' numbers
ValidTokens ==
  {Dec(v) : v \in Vals} \cup {RangeStr(x, y) : x \in Vals, y \in Vals}

\* C10: for a comma separated spec of valid tokens parseSpec returns the
\* union of what it returns for each token alone, a subset of [1, N]; the
\* tokens in another order, or with one of them repeated, give the same set.
C10_SelectionIsASet ==
  LET ts == Split(spec) IN
  (Parsed /\ \A i \in 1..Len(ts) : ts[i] \in ValidTokens) =>
    /\ thrown = "none"
    /\ wanted = UNION {parseSpec(ts[i], pageCount).idx : i \in 1..Len(ts)}
    /\ wanted \subseteq 1..pageCount
    /\ \A i \in 1..Len(ts), j \in 1..Len(ts) :
         i < j => SameResult(parseSpec(Join(Swap(ts, i, j)), pageCount))
    /\ \A i \in 1..Len(ts) :
         SameResult(parseSpec(Join(Append(ts, ts[i])), pageCount))

\* C10 witness: "1,1,2,2-2" on at least two units has given {1,2}
C10_Witness ==
  /\ Parsed /\ pageCount >= 2
  /\ spec = <<"1", ",", "1", ",", "2", ",", "2", "-", "2">>
  /\ wanted = {1, 2} /\ Cardinality(wanted) = 2

\* ------------------------------------------------- claims on the whole run
\* no page occurs twice in the sequence
NoRepeat(seq) == Cardinality(Range(seq)) = Len(seq)

\* C11: no page outside the set parseSpec returned is ever acquired, no page
\* is stamped twice, and a successful run in which every selected page was
\* acquired has acquired and stamped exactly the pages of that set.
C11_MutatedIsSelection ==
  /\ Range(acquired) \subseteq wanted
  /\ failed \subseteq wanted
  /\ Range(mutated) \subseteq Range(acquired)
  /\ NoRepeat(mutated) /\ NoRepeat(acquired)
  /\ (Succeeded /\ failed = {}) =>
       /\ Range(mutated) = wanted
       /\ Range(acquired) = wanted
       /\ Len(mutated) = Cardinality(wanted)

\* C11 witness: "3,5-7" on ten pages has stamped 3, 5, 6, 7 in one batch
C11_Witness ==
  /\ Succeeded /\ pageCount = 10 /\ failed = {}
  /\ spec = <<"3", ",", "5", "-", "7">>
  /\ mutated = <<3, 5, 6, 7>> /\ Len(saves) = 1

\* a save has reported failure
SaveFailed == \E i \in 1..Len(saves) : ~saves[i].ok

\* C12: a save that failed is the last call of the library in the run: the
\* run has ended with exit status 1 and no success line, nothing was acquired
\* or stamped after it, and from then on no page is acquired or stamped and
\* no save is attempted.
C12_FailedSaveIsFatal ==
  /\ [](\A i \in 1..Len(saves) :
          ~saves[i].ok =>
            /\ i = Len(saves)
            /\ pc = "done" /\ exitCode = 1 /\ ~wrote
            /\ saves[i].stamped = Len(mutated)
            /\ saves[i].tried = Len(acquired) + Cardinality(failed))
  /\ [][SaveFailed => UNCHANGED <<acquired, failed, mutated, saves, openPages>>]_vars

\* C12 witness: the first batch was saved, the save of the second failed
C12_Witness ==
  /\ pc = "done" /\ Len(saves) = 2
  /\ saves[1].ok /\ ~saves[2].ok /\ saves[2].start = 41
  /\ pageCount > 80

\* C13: main has returned 0 exactly when it had an argument, nothing was
\* thrown, the document loaded, the selection was not empty and every save
\* succeeded; in every other case it has returned 1; the success line is
\* written exactly when it returns 0.
C13_ExitStatus ==
  /\ pc # "done" => exitCode = -1 /\ ~wrote
  /\ pc = "done" =>
       /\ exitCode \in {0, 1}
       /\ exitCode = 0 <=>
            /\ ac >= 2 /\ thrown = "none" /\ doc # "none"
            /\ wanted # {} /\ AllSavesOk
       /\ exitCode = 0 => Len(saves) >= 1 /\ fw = "closed"
       /\ wrote <=> exitCode = 0

\* C13 witness: a run that saved its batches has returned 0 and written the
\* success line
C13_Witness ==
  /\ pc = "done" /\ exitCode = 0 /\ wrote
  /\ Len(saves) = 2 /\ AllSavesOk /\ thrown = "none"

\* t is written with decimal digits only, and at least one
IsDecimal(t) == t # <<>> /\ \A i \in 1..Len(t) : IsDigit(t[i])

\* t is a decimal integer or a low-high pair of decimal integers
WellFormedToken(t) ==
  LET dash == Find(t, "-") IN
  IF dash = 0 THEN IsDecimal(t)
  ELSE IsDecimal(SubSeq(t, 1, dash - 1)) /\ IsDecimal(SubstrFrom(t, dash + 1))

\* s has an empty token between commas or a token that is no decimal integer
\* and no pair of them (an empty spec, or nothing after the last comma, is
\* no token)
Malformed(s) ==
  LET ts == Split(s) IN
  /\ s # All
  /\ \E i \in 1..Len(ts) :
       /\ ~WellFormedToken(ts[i])
       /\ ~(ts[i] = <<>> /\ i = Len(ts))

\* C14 (as claimed): for a spec with a malformed token (an empty token
\* between commas, non-numeric text, digits followed by non-numeric
\* characters, a range with a missing bound) parsing fails: once the
\* selection is parsed the run has ended with exit status 1, with no page
\* stamped and no incremental save (stated for documents with a page).
C14_MalformedAborts ==
  (ac >= 3 /\ Malformed(spec) /\ doc # "none" /\ pc # "parse"
     /\ pageCount >= 1) =>
    /\ pc = "done" /\ exitCode = 1
    /\ thrown \in {"invalid_argument", "out_of_range"}
    /\ mutated = <<>> /\ saves = <<>>

\* C16 (as claimed): a run in which the document loaded has closed the
\* document handle by the time it ends, on every exit path.
C16_DocumentClosed ==
  (pc = "done" /\ doc # "none") => doc = "closed"

\* C17 (as claimed): the library is initialised at most once, and a run that
\* initialised it has destroyed it exactly once by the time it ends.
C17_LibraryLifecycle ==
  /\ libInits <= 1 /\ libDestroys <= libInits
  /\ (pc = "done" /\ libInits = 1) => libDestroys = 1

\* C15: the FileWriter's file is closed when the run ends if it was opened,
\* whichever way the run ends; it is open while the run goes on; it is closed
\* once (only an open file is closed, and a closed one stays closed); nothing
\* is written and the file position does not move after the close.
C15_SinkClosed ==
  /\ []((pc = "done" /\ fw # "unopened") => fw = "closed")
  /\ [](pc \in {"opensrc", "copy", "rewind", "batch", "page", "stamp", "cleanup"}
          => fw = "open")
  /\ [][(fw' = "closed" /\ fw # "closed") => fw = "open"]_vars
  /\ [][fw = "closed" => (fw' = "closed" /\ out' = out /\ pos' = pos)]_vars

\* C15 witness: the exception of the copy has closed the file that was opened
C15_Witness ==
  pc = "done" /\ thrown = "open input for copy" /\ fw = "closed"

\* the batch of a page: 1 for pages 1..40, 2 for 41..80, ...
BatchOf(page) == ((page - 1) \div 40) + 1

StrictlyIncreasing(seq) == \A i \in 1..(Len(seq) - 1) : seq[i] < seq[i + 1]

\* the i-th page of seq was handled after save k-1 returned success and
\* before save k was called, k its batch
BetweenSaves(seq, i) ==
  LET k == BatchOf(seq[i]) IN
  /\ k > 1 => /\ Len(saves) >= k - 1
              /\ saves[k - 1].ok
              /\ i > saves[k - 1].stamped
  /\ k <= Len(saves) => i <= saves[k].stamped

\* C18: the acquired pages and the stamped pages are in strictly increasing
\* order, the saved batches are in strictly increasing order, and every page
\* of batch k is acquired and stamped after the save of batch k-1 has
\* returned success and before the save of batch k.
C18_Ordering ==
  /\ StrictlyIncreasing(acquired)
  /\ StrictlyIncreasing(mutated)
  /\ \A i \in 1..(Len(saves) - 1) :
       /\ saves[i].end < saves[i + 1].start
       /\ saves[i].stamped <= saves[i + 1].stamped
  /\ \A i \in 1..Len(saves) : saves[i].start = 40 * (i - 1) + 1
  /\ \A i \in 1..Len(mutated) : BetweenSaves(mutated, i)
  /\ \A i \in 1..Len(acquired) : BetweenSaves(acquired, i)
  /\ \A i \in 1..Len(acquired) :
       i <= Len(mutated) => mutated[i] = acquired[i]

\* C18 witness: pages of three batches were stamped, each batch saved
C18_Witness ==
  /\ Succeeded /\ Len(saves) = 3
  /\ {40, 41, 80, 81} \subseteq Range(mutated)
  /\ saves[1].stamped < saves[2].stamped /\ saves[2].stamped < saves[3].stamped

\* C19: whenever parseSpec returns, every member of its result lies within
\* [1, N]; the result is empty for N = 0.
C19_IndexSetInRange ==
  (Parsed /\ thrown = "none") =>
    /\ \A u \in wanted : 1 <= u /\ u <= pageCount
    /\ pageCount = 0 => wanted = {}

\* C19 witness: a mix of integers and a range reaching outside [1, N] has
\* given pages inside it
C19_Witness ==
  /\ Parsed /\ thrown = "none" /\ pageCount = 2
  /\ spec = <<"0", ",", "3", "-", "1">> /\ wanted = {1, 2}

\* C20: a run that ends because the document does not load, the selection
\* spec makes std::stoi throw, or the selection is empty has never opened the
\* output, and as long as the output is not opened the file at outPath is
\* what it was.
C20_EarlyFailureKeepsOutput ==
  /\ []((/\ pc = "done" /\ ac >= 2 /\ thrown # "open"
         /\ \/ doc = "none"
            \/ thrown \in {"invalid_argument", "out_of_range"}
            \/ (thrown = "none" /\ wanted = {}))
          => (fw = "unopened" /\ saves = <<>>))
  /\ [][fw' = "unopened" => (out' = out /\ pos' = pos)]_vars

\* C20 witness: the run on a malformed spec has ended and the file that was
\* at outPath is still there
C20_Witness ==
  /\ pc = "done" /\ thrown = "invalid_argument" /\ doc = "open"
  /\ fw = "unopened" /\ out = OldFile

====
